---- MODULE Spec2Model ----
(***************************************************************************)
(* A model of the meeting recorder (src/app.py): the Streamlit script as a *)
(* state machine.  One step of the model is one run of the script, caused  *)
(* by a click on "Start Recording" or "Stop Recording": the button's       *)
(* handler followed by the display code at the end of the script.  An      *)
(* exception that no handler catches ends the run where it is raised; the  *)
(* session-state fields assigned before it keep their new values.          *)
(***************************************************************************)
EXTENDS Integers, Sequences, FiniteSets, TLC

\* The clock counts ticks; the model stops the clock at MaxTime.
MaxTime == 2
\* Ticks in one second: the clock is finer than the filenames' timestamps.
TicksPerSecond == 2
\* Captures the input device can be asked to begin in one behaviour.
MaxCaptures == 2

VARIABLES
    \* st.session_state
    is_recording, recording_started, start_time, elapsed_time, recorder,
    last_recording, last_transcription, last_analysis,
    \* the world outside the session
    now,            \* the clock, in ticks
    files,          \* the recordings directory: filename -> stored buffer
    inFlight,       \* captures begun by sd.rec and not ended by sd.stop
    nextHandle,     \* the identity of the next buffer sd.rec returns
    \* what the last run of the script did
    click,          \* the button that caused it
    reply,          \* the analyzer's reply it received (the local `analysis`)
    crashed,        \* the exception that ended it, or "none"
    notices,        \* st.info / st.success / st.error / st.warning, in order
    panels,         \* the display elements it rendered, in order
    highlights,     \* the action-items table's Priority cell styles
    shown_diagram,  \* the text handed to the diagram widget
    diagram_attempt,\* "none", "ok" or "failed": how the diagram's try block went
    \* history
    analysis_src    \* the transcript last_analysis was produced from

session == <<is_recording, recording_started, start_time, elapsed_time,
             recorder, last_recording, last_transcription, last_analysis>>
world   == <<now, files, inFlight, nextHandle>>
output  == <<click, reply, crashed, notices, panels, highlights,
             shown_diagram, diagram_attempt>>
vars    == <<session, world, output, analysis_src>>

\* Python's None for start_time, elapsed_time and recorder.
NoTime   == -1
NoHandle == 0
\* A key that is not in st.session_state: last_recording, last_transcription
\* and last_analysis are not initialised.
Absent   == [absent |-> TRUE]
NoFile   == -1
NoReply  == [syntax |-> "none"]

----------------------------------------------------------------------------
(* Text.  A string is a sequence of words. *)

Words(s) == {s[i] : i \in 1..Len(s)}

\* str.lower on the priority words the model uses.
Lower(w) ==
    CASE w = "High" -> "high"
      [] w = "LOW"  -> "low"
      [] OTHER      -> w

LowerStr(s) == [i \in 1..Len(s) |-> Lower(s[i])]

----------------------------------------------------------------------------
(* The analyzer's reply and Python's eval of it. *)

\* JSON tokens of a reply: a string, a number, or a literal (null, true, false).
JStr(s)  == [lit |-> "string", s |-> s]
JNum(s)  == [lit |-> "number", s |-> s]
JNull    == [lit |-> "null",   s |-> <<"null">>]

AllKeys == {"executive_summary", "action_items", "key_decisions", "mermaid_diagram"}

JItem(task, assignee, deadline, priority, deps) ==
    [task |-> task, assignee |-> assignee, deadline |-> deadline,
     priority |-> priority, dependencies |-> deps]

JDoc(keys, summary, items, decisions, diagram) ==
    [syntax |-> "json", keys |-> keys, executive_summary |-> summary,
     action_items |-> items, key_decisions |-> decisions,
     mermaid_diagram |-> diagram]

\* The tokens of a JSON document, those under its present keys.
ItemTokens(item) ==
    {item.task, item.assignee, item.deadline, item.priority}
        \cup {item.dependencies[i] : i \in 1..Len(item.dependencies)}

DocTokens(doc) ==
    (IF "executive_summary" \in doc.keys THEN {doc.executive_summary} ELSE {})
    \cup (IF "mermaid_diagram" \in doc.keys THEN {doc.mermaid_diagram} ELSE {})
    \cup (IF "key_decisions" \in doc.keys
            THEN {doc.key_decisions[i] : i \in 1..Len(doc.key_decisions)} ELSE {})
    \cup (IF "action_items" \in doc.keys
            THEN UNION {ItemTokens(doc.action_items[i]) : i \in 1..Len(doc.action_items)}
            ELSE {})

\* A Python value eval yields for a token: a str or an int.
PyVal(tok) == [py |-> IF tok.lit = "string" THEN "str" ELSE "int", s |-> tok.s]

PyItem(item) ==
    [task |-> PyVal(item.task), assignee |-> PyVal(item.assignee),
     deadline |-> PyVal(item.deadline), priority |-> PyVal(item.priority),
     dependencies |-> [i \in 1..Len(item.dependencies) |-> PyVal(item.dependencies[i])]]

\* eval(analysis): text that is no Python expression is a SyntaxError; the JSON
\* literals null, true and false are names Python does not define; a JSON
\* object of strings, numbers, arrays and objects is a dict display.
PyEval(doc) ==
    IF doc.syntax # "json" THEN [ok |-> FALSE, error |-> "SyntaxError"]
    ELSE IF \E tok \in DocTokens(doc) : tok.lit \in {"null", "true", "false"}
    THEN [ok |-> FALSE, error |-> "NameError"]
    ELSE [ok |-> TRUE,
          value |-> [keys |-> doc.keys,
                     executive_summary |-> PyVal(doc.executive_summary),
                     action_items |-> [i \in 1..Len(doc.action_items) |->
                                          PyItem(doc.action_items[i])],
                     key_decisions |-> [i \in 1..Len(doc.key_decisions) |->
                                          PyVal(doc.key_decisions[i])],
                     mermaid_diagram |-> PyVal(doc.mermaid_diagram)]]

\* The replies the analyzer is drawn from.
ItemA == JItem(JStr(<<"draft">>), JStr(<<"Sam">>), JStr(<<"Tuesday">>),
               JStr(<<"High">>), <<JStr(<<"budget">>)>>)
ItemB == JItem(JStr(<<"review">>), JStr(<<"Ann">>), JStr(<<"Friday">>),
               JStr(<<"urgent">>), <<>>)
ItemNullDeadline == JItem(JStr(<<"draft">>), JStr(<<"Sam">>), JNull,
                          JStr(<<"low">>), <<>>)
ItemNumPriority == JItem(JStr(<<"draft">>), JStr(<<"Sam">>), JStr(<<"Tuesday">>),
                         JNum(<<"1">>), <<>>)

ReplyTwoItems ==
    JDoc(AllKeys, JStr(<<"launch">>), <<ItemA, ItemB>>, <<JStr(<<"ship">>)>>,
         JStr(<<"A", "-->", "B">>))
ReplyNoItems ==
    JDoc(AllKeys, JStr(<<"standup">>), <<>>, <<>>,
         JStr(<<"graph", "TD", "A", "-->", "B", "style", "A">>))
ReplyNullDeadline ==
    JDoc(AllKeys, JStr(<<"launch">>), <<ItemNullDeadline>>, <<JStr(<<"ship">>)>>,
         JStr(<<"graph", "TD", "A", "-->", "B">>))
ReplyNumPriority ==
    JDoc(AllKeys, JStr(<<"launch">>), <<ItemNumPriority>>, <<>>,
         JStr(<<"graph", "TD", "A", "-->", "B">>))
ReplySummaryOnly ==
    JDoc({"executive_summary"}, JStr(<<"launch">>), <<>>, <<>>, JStr(<<>>))
ReplyNotJson == [syntax |-> "garbage"]

Replies ==
    {ReplyTwoItems, ReplyNoItems, ReplyNullDeadline, ReplyNumPriority,
     ReplySummaryOnly, ReplyNotJson}

\* generate_meeting_summary raising (the remote call fails).
TransportError == [syntax |-> "raise"]

----------------------------------------------------------------------------
(* Audio capture and the recording store. *)

\* record_audio_stream: sd.rec returns the buffer being filled, or raises (the
\* exception is logged and raised again).
record_audio_stream(deviceOk) ==
    IF deviceOk THEN [ok |-> TRUE, handle |-> nextHandle]
    ELSE [ok |-> FALSE, handle |-> NoHandle]

\* strftime("%Y%m%d_%H%M%S"): the clock cut to whole seconds.
Timestamp(t) == t \div TicksPerSecond

\* sf.write(filename, recording, samplerate): creates the file or replaces it.
WriteFile(fs, name, recording) ==
    [f \in DOMAIN fs \cup {name} |-> IF f = name THEN recording ELSE fs[f]]

\* save_audio: the file recordings/audio_<timestamp>.wav, or the write's
\* exception, logged and raised again.
save_audio(recording, storeOk) ==
    LET filename == Timestamp(now) IN
    IF storeOk
    THEN [ok |-> TRUE, filename |-> filename, files |-> WriteFile(files, filename, recording)]
    ELSE [ok |-> FALSE, filename |-> NoFile, files |-> files]

\* model.transcribe(audio_file)["text"]: the text spoken in the stored buffer;
\* a buffer of no samples has no text.
Transcribe(fs, name) == [spoken |-> fs[name].h, secs |-> fs[name].len]

\* Python truth of a transcript (a str) and of an evaluated analysis (a dict).
TruthyText(t) == t.secs > 0
TruthyDict(a) == a.keys # {}

----------------------------------------------------------------------------
(* The dashboard. *)

ErrDiagram      == "Error rendering diagram. Using simplified version..."
DiagramLegend   == "Diagram Legend"
DefaultStyle    == <<"style", "default", "fill:#f9f", "style", "default", "fill:#bbf">>
FallbackDiagram == <<"graph", "TD", "Start", "-->", "Topics", "-->", "Decisions",
                     "-->", "Actions", "-->", "Team", "style", "Start">>

Out(p, n, c, h, d, a) ==
    [panels |-> p, notices |-> n, crashed |-> c, highlights |-> h,
     shown_diagram |-> d, diagram_attempt |-> a]

\* color_priority: the cell style of a Priority value.
color_priority(val) ==
    LET v == LowerStr(val.s) IN
    CASE v = <<"high">>   -> "background-color: #ffcccc"
      [] v = <<"medium">> -> "background-color: #ffffcc"
      [] v = <<"low">>    -> "background-color: #ccffcc"
      [] OTHER            -> ""

\* The diagram text handed to the widget: 'graph TD' put in front unless the
\* text starts with 'graph', the default styles added unless it has a style.
NormalizeDiagram(code) ==
    LET d == IF Len(code) > 0 /\ code[1] = "graph" THEN code
             ELSE <<"graph", "TD">> \o code
    IN IF "style" \in Words(d) THEN d ELSE d \o DefaultStyle

\* The diagram's try block left without its except clause.
RenderDiagramNoFallback(analysis, rejects) ==
    IF "mermaid_diagram" \notin analysis.keys
    THEN [attempt |-> "failed", panels |-> <<>>, notices |-> <<>>,
          shown |-> <<>>, crashed |-> "KeyError"]
    ELSE IF analysis.mermaid_diagram.py # "str"
    THEN [attempt |-> "failed", panels |-> <<>>, notices |-> <<>>,
          shown |-> <<>>, crashed |-> "AttributeError"]
    ELSE IF rejects
    THEN [attempt |-> "failed", panels |-> <<>>, notices |-> <<>>,
          shown |-> <<>>, crashed |-> "RenderError"]
    ELSE [attempt |-> "ok", panels |-> <<"diagram">>, notices |-> <<DiagramLegend>>,
          shown |-> NormalizeDiagram(analysis.mermaid_diagram.s), crashed |-> "none"]

\* The diagram's try/except: a missing 'mermaid_diagram' key, a diagram that is
\* no str (no strip method) and a diagram the widget rejects all end in the
\* except clause, which shows the error notice and the fixed fallback diagram.
RenderDiagram(analysis, rejects) ==
    IF \/ "mermaid_diagram" \notin analysis.keys
       \/ analysis.mermaid_diagram.py # "str"
       \/ rejects
    THEN [attempt |-> "failed", panels |-> <<"fallback_diagram">>,
          notices |-> <<ErrDiagram>>, shown |-> FallbackDiagram, crashed |-> "none"]
    ELSE [attempt |-> "ok", panels |-> <<"diagram">>, notices |-> <<DiagramLegend>>,
          shown |-> NormalizeDiagram(analysis.mermaid_diagram.s), crashed |-> "none"]

\* The "Meeting Analysis Dashboard" block: summary, decisions, action items,
\* diagram, in this order; a missing key or a value of the wrong type raises
\* where it is used and ends the run.
RenderDashboard(analysis, rejects) ==
    LET p0 == <<"dashboard_header">>
        p1 == p0 \o <<"executive_summary">>
        p2 == p1 \o <<"key_decisions", "action_items_header">>
        items == analysis.action_items
        p3 == p2 \o (IF Len(items) > 0 THEN <<"action_items_table">> ELSE <<>>)
        hl == [i \in 1..Len(items) |-> color_priority(items[i].priority)]
        dg == RenderDiagram(analysis, rejects)
    IN  IF "executive_summary" \notin analysis.keys
        THEN Out(p0, <<>>, "KeyError", <<>>, <<>>, "none")
        ELSE IF "key_decisions" \notin analysis.keys
        THEN Out(p1, <<>>, "KeyError", <<>>, <<>>, "none")
        ELSE IF "action_items" \notin analysis.keys
        THEN Out(p2, <<>>, "KeyError", <<>>, <<>>, "none")
        ELSE IF \E i \in 1..Len(items) : \E j \in 1..Len(items[i].dependencies) :
                    items[i].dependencies[j].py # "str"
        THEN Out(p2, <<>>, "TypeError", <<>>, <<>>, "none")
        ELSE IF \E i \in 1..Len(items) : items[i].priority.py # "str"
        THEN Out(p2, <<>>, "AttributeError", <<>>, <<>>, "none")
        ELSE Out(p3 \o <<"diagram_header">> \o dg.panels, dg.notices, dg.crashed,
                 hl, dg.shown, dg.attempt)

\* The display code at the end of the script: transcript, dashboard, playback
\* of the last recording, the saved recordings.
Render(lt, la, lr, rejects) ==
    LET t == IF lt # Absent /\ TruthyText(lt) THEN <<"transcript">> ELSE <<>>
        d == IF la # Absent /\ TruthyDict(la) THEN RenderDashboard(la, rejects)
             ELSE Out(<<>>, <<>>, "none", <<>>, <<>>, "none")
    IN  IF d.crashed # "none" THEN [d EXCEPT !.panels = t \o @]
        ELSE [d EXCEPT !.panels = t \o @
                        \o (IF lr # NoFile THEN <<"playback">> ELSE <<>>)
                        \o <<"saved_recordings">>]

----------------------------------------------------------------------------
(* The two handlers.  A handler's result: the values its run leaves in the  *)
(* session and the world, its notices, and the exception that ended it.     *)

InfoRecording  == "Recording... Click 'Stop Recording' when finished."
SavedNotice    == "Recording saved!"
ErrAnalysis    == "Error analyzing meeting content"
DoneNotice     == "Analysis complete!"
ErrNoRecording == "No recording in progress!"
WarnRecording  == "Recording in progress..."

\* The state the run starts from, no handler having acted.
Current ==
    [is_recording |-> is_recording, recording_started |-> recording_started,
     start_time |-> start_time, elapsed_time |-> elapsed_time,
     recorder |-> recorder, last_recording |-> last_recording,
     last_transcription |-> last_transcription, last_analysis |-> last_analysis,
     files |-> files, inFlight |-> inFlight, nextHandle |-> nextHandle,
     analysis_src |-> analysis_src, reply |-> NoReply,
     notices |-> <<>>, crashed |-> "none"]

\* A Start handler that does not look at is_recording.
StartAlways == TRUE

\* The Start button's condition beside the click: not st.session_state['is_recording'].
StartAllowed == ~is_recording

\* if st.button("Start Recording") and not is_recording: ...
StartHandler(deviceOk) ==
    IF ~StartAllowed THEN Current
    ELSE LET s == [Current EXCEPT !.is_recording = TRUE,
                                  !.start_time = now,
                                  !.recording_started = TRUE]
             r == record_audio_stream(deviceOk)
         IN  IF r.ok
             THEN [s EXCEPT !.recorder = r.handle,
                            !.nextHandle = @ + 1,
                            !.inFlight = @ + 1,
                            !.notices = <<InfoRecording>>]
             ELSE [s EXCEPT !.crashed = "DeviceError"]

\* The try block around the analyzer: generate_meeting_summary, eval, the
\* assignment of last_analysis; any exception becomes an error notice.
Analyze(s, transcript, answer) ==
    IF answer = TransportError
    THEN [s EXCEPT !.notices = @ \o <<ErrAnalysis>>]
    ELSE LET e == PyEval(answer) IN
         IF e.ok
         THEN [s EXCEPT !.reply = answer,
                        !.last_analysis = e.value,
                        !.analysis_src = transcript]
         ELSE [s EXCEPT !.reply = answer,
                        !.notices = @ \o <<ErrAnalysis>>]

\* if st.button("Stop Recording") and is_recording: ...
StopHandler(storeOk, transcribeOk, answer) ==
    IF ~is_recording THEN Current
    ELSE IF recorder = NoHandle
    THEN [Current EXCEPT !.notices = <<ErrNoRecording>>]
    ELSE LET elapsed == now - start_time
             s0 == [Current EXCEPT !.is_recording = FALSE,
                                   !.elapsed_time = elapsed,
                                   !.inFlight = 0]
             recording == [h |-> recorder, len |-> elapsed]
             saved == save_audio(recording, storeOk)
             s1 == [s0 EXCEPT !.files = saved.files,
                              !.last_recording = saved.filename,
                              !.notices = <<SavedNotice>>]
             transcript == Transcribe(saved.files, saved.filename)
             s2 == [s1 EXCEPT !.last_transcription = transcript]
             s3 == Analyze(s2, transcript, answer)
         IN  IF ~saved.ok THEN [s0 EXCEPT !.crashed = "StorageError"]
             ELSE IF ~transcribeOk THEN [s1 EXCEPT !.crashed = "TranscriptionError"]
             ELSE [s3 EXCEPT !.notices = @ \o <<DoneNotice>>,
                             !.recorder = NoHandle]

\* One run of the script: the handler's result, then (unless the handler
\* raised) the recording warning and the display code.
Run(button, h, rejects) ==
    LET r == Render(h.last_transcription, h.last_analysis, h.last_recording, rejects)
        warn == IF h.is_recording THEN <<WarnRecording>> ELSE <<>>
        shown == IF h.crashed # "none"
                 THEN Out(<<>>, h.notices, h.crashed, <<>>, <<>>, "none")
                 ELSE [r EXCEPT !.notices = h.notices \o warn \o @]
    IN  /\ is_recording' = h.is_recording
        /\ recording_started' = h.recording_started
        /\ start_time' = h.start_time
        /\ elapsed_time' = h.elapsed_time
        /\ recorder' = h.recorder
        /\ last_recording' = h.last_recording
        /\ last_transcription' = h.last_transcription
        /\ last_analysis' = h.last_analysis
        /\ files' = h.files
        /\ inFlight' = h.inFlight
        /\ nextHandle' = h.nextHandle
        /\ analysis_src' = h.analysis_src
        /\ click' = button
        /\ reply' = h.reply
        /\ crashed' = shown.crashed
        /\ notices' = shown.notices
        /\ panels' = shown.panels
        /\ highlights' = shown.highlights
        /\ shown_diagram' = shown.shown_diagram
        /\ diagram_attempt' = shown.diagram_attempt
        /\ UNCHANGED now

Init ==
    /\ is_recording = FALSE
    /\ recording_started = FALSE
    /\ start_time = NoTime
    /\ elapsed_time = NoTime
    /\ recorder = NoHandle
    /\ last_recording = NoFile
    /\ last_transcription = Absent
    /\ last_analysis = Absent
    /\ analysis_src = Absent
    /\ now = 0
    /\ files = [f \in {} |-> [h |-> 0, len |-> 0]]
    /\ inFlight = 0
    /\ nextHandle = 1
    /\ click = "none"
    /\ reply = NoReply
    /\ crashed = "none"
    /\ notices = <<>>
    /\ panels = <<"saved_recordings">>
    /\ highlights = <<>>
    /\ shown_diagram = <<>>
    /\ diagram_attempt = "none"

\* A click on "Start Recording".
StartClick ==
    \E deviceOk \in BOOLEAN, rejects \in BOOLEAN :
        /\ deviceOk /\ StartAllowed => nextHandle <= MaxCaptures
        /\ \E h \in {StartHandler(deviceOk)} : Run("start", h, rejects)

\* What a Stop run meets: the write failing, the transcription failing, or
\* both succeeding and the analyzer answering or raising.
StopCases ==
    {[storeOk |-> FALSE, transcribeOk |-> FALSE, answer |-> TransportError],
     [storeOk |-> TRUE, transcribeOk |-> FALSE, answer |-> TransportError]}
    \cup [storeOk : {TRUE}, transcribeOk : {TRUE},
          answer : Replies \cup {TransportError}]

\* A click on "Stop Recording".
StopClick ==
    \E c \in StopCases, rejects \in BOOLEAN :
        \E h \in {StopHandler(c.storeOk, c.transcribeOk, c.answer)} :
            Run("stop", h, rejects)

\* Time passes.
Tick ==
    /\ now < MaxTime
    /\ now' = now + 1
    /\ UNCHANGED <<session, files, inFlight, nextHandle, output, analysis_src>>

Next == StartClick \/ StopClick \/ Tick

Spec == Init /\ [][Next]_vars

----------------------------------------------------------------------------
(* The claims. *)

\* The last run was a Stop click whose analyzer reply eval could not parse.
ParseFailed == click = "stop" /\ reply # NoReply /\ ~PyEval(reply).ok

\* The last run was a Stop click whose analyzer reply is a JSON object with the
\* four required keys (its values may be any JSON tokens).
WellFormedReply == click = "stop" /\ reply # NoReply /\ reply.syntax = "json"
                   /\ reply.keys = AllKeys

\* C1: in every reachable state is_recording is true exactly when a capture
\* begun by a Start click has not yet been ended by a Stop click.
C1_RecordingIffCaptureInFlight == is_recording <=> inFlight > 0

\* C2: a Start click on which the device cannot be opened leaves is_recording
\* false and start_time, recording_started and recorder as they were.
C2_FailedStartKeepsNothing ==
    [][(StartClick /\ crashed' = "DeviceError") =>
         /\ is_recording' = FALSE
         /\ start_time' = start_time
         /\ recording_started' = recording_started
         /\ recorder' = recorder]_vars

\* C3: after a Stop click whose analyzer reply cannot be parsed, the error
\* notice is shown, the handler has not raised, last_transcription is the
\* transcript of the recording just made, and last_analysis is not an analysis
\* of an earlier recording.
C3_ParseFailureKeepsNoStaleAnalysis ==
    ParseFailed =>
        /\ ErrAnalysis \in Words(notices)
        /\ crashed \notin {"StorageError", "TranscriptionError"}
        /\ last_transcription = Transcribe(files, last_recording)
        /\ (last_analysis = Absent \/ analysis_src = last_transcription)

\* C4: every successful save stores its buffer under a filename no earlier save
\* used: the directory gains exactly one file and no stored file changes.
C4_SaveNeverOverwrites ==
    [][(StopClick /\ SavedNotice \in Words(notices')) =>
         /\ last_recording' \notin DOMAIN files
         /\ Cardinality(DOMAIN files') = Cardinality(DOMAIN files) + 1
         /\ \A f \in DOMAIN files : files'[f] = files[f]]_vars

\* C5: a Stop click while is_recording is false changes no session-state
\* field, does not raise in the handler, and shows the "nothing in progress"
\* notice.
C5_IdleStopNotifies ==
    [][(StopClick /\ ~is_recording) =>
         /\ UNCHANGED session
         /\ crashed' \notin {"StorageError", "TranscriptionError"}
         /\ ErrNoRecording \in Words(notices')]_vars

\* C6: a Start click while is_recording is true changes neither the session
\* nor the device (no capture is begun, start_time and recorder keep their
\* values), and at most one capture is in flight at any time.
C6_StartWhileRecordingIsNoOp ==
    /\ [](inFlight <= 1)
    /\ [][(StartClick /\ is_recording) =>
            UNCHANGED <<session, world, analysis_src>>]_vars

\* C6 witness: Start was clicked during a capture: the run shows the recording
\* warning without the notice of a capture just begun.
C6_Witness ==
    /\ click = "start" /\ is_recording /\ inFlight = 1 /\ recorder # NoHandle
    /\ notices # <<>> /\ Head(notices) = WarnRecording

\* C7: when the diagram of the analysis fails to render, the run does not
\* raise: it shows the error notice and the fixed fallback diagram, after the
\* executive summary, the key decisions and the action items section (with its
\* table when the analysis has action items) of the same analysis.
C7_DiagramFailureKeepsPanels ==
    diagram_attempt = "failed" =>
        /\ crashed = "none"
        /\ ErrDiagram \in Words(notices)
        /\ shown_diagram = FallbackDiagram
        /\ {"executive_summary", "key_decisions", "action_items_header",
            "fallback_diagram"} \subseteq Words(panels)
        /\ "diagram" \notin Words(panels)
        /\ Len(last_analysis.action_items) > 0 => "action_items_table" \in Words(panels)

\* C7 witness: the diagram of an analysis with action items failed to render.
C7_Witness ==
    /\ diagram_attempt = "failed"
    /\ last_analysis # Absent /\ Len(last_analysis.action_items) > 0
    /\ "action_items_table" \in Words(panels)

\* C8: after a Stop click whose analyzer reply is a JSON object of the required
\* shape, last_analysis is the parse of that reply, with as many action items
\* as the reply's action_items array.
C8_WellFormedReplyIsStored ==
    WellFormedReply =>
        /\ last_analysis # Absent
        /\ analysis_src = last_transcription
        /\ Len(last_analysis.action_items) = Len(reply.action_items)

\* C9: in every reachable state in which is_recording is true, a Stop click can
\* make it false.  (A Stop click that leaves is_recording true changes nothing
\* a later Stop click reads, and a Start click is a no-op while is_recording
\* is true: if the next Stop click cannot end the recording, none ever can.)
C9_StopCanAlwaysEndRecording ==
    is_recording => ENABLED (StopClick /\ ~is_recording')

\* C10: whenever last_recording and last_transcription are both set,
\* last_transcription is the transcript of the file last_recording names.
C10_TranscriptMatchesRecording ==
    (last_recording # NoFile /\ last_transcription # Absent) =>
        last_transcription = Transcribe(files, last_recording)

====
